------------------------------ MODULE Spec2Model ------------------------------
(***************************************************************************)
(* Model of tests/manage/monitoring/conftest.py: measure_operation, which  *)
(* runs an operation while a background thread (prometheus_log) polls the  *)
(* Prometheus alert API, and caches the measurement record in a result     *)
(* file.                                                                   *)
(*                                                                         *)
(* One orchestrator control flow makes up to MaxCalls successive calls of  *)
(* measure_operation on one result file.  Every cache-miss call owns an    *)
(* info dict, an alert_list and a logging thread, indexed by the call      *)
(* number.  A call that ends by an exception ends the run: the exception    *)
(* surfaces to the test runner and no further call is made, while a thread *)
(* the call has started and not joined lives on.                           *)
(*                                                                         *)
(* Environment: time.time() is a clock that never runs backwards; the set  *)
(* of alerts Prometheus reports only grows (an alert that changes state is *)
(* a structurally new alert); a result file that exists is readable by the *)
(* calling user.                                                           *)
(*                                                                         *)
(* The scenario fixtures measure_stop_ceph_mgr, _mon and _osd list the     *)
(* deployments of their label, pick those to stop, call measure_operation  *)
(* with an operation that scales them to 0, and scale back afterwards.     *)
(* The cluster is seen through the commands given to it: oc.exec_oc_cmd    *)
(* returns once the command is given, and oc.get(name) gives the resource  *)
(* object of that name (ocs_ci/ocs/ocp.py, by the cluster resource API of  *)
(* the specification).  A fixture runs once on a fresh process.            *)
(***************************************************************************)
EXTENDS Integers, Sequences, FiniteSets

\* ------------------------------------------------------------------ bounds
MaxCalls == 2          \* successive calls of measure_operation on the slot
MaxTime == 2           \* the clock ticks freely up to this value
MaxMinimalTime == 2    \* minimal_time is drawn from 0..MaxMinimalTime
MaxResp == 2           \* longest alert listing one query returns
MaxPolls == 3          \* polls recorded in the watcher-only specification
MaxDaemons == 5        \* longest listing of deployments a scenario is given
MaxCounted == 2        \* queries after the stop request are counted up to this

Calls == 1..MaxCalls

\* ------------------------------------------------------------ value domains
\* Python values, tagged with their Python type.
StrVal(s) == [t |-> "str", v |-> <<s>>]
TupleVal(q) == [t |-> "tuple", v |-> q]
ListVal(q) == [t |-> "list", v |-> q]
DictVal(q) == [t |-> "dict", v |-> q]
NoneVal == [t |-> "none", v |-> <<>>]
ObjectVal(s) == [t |-> "object", v |-> <<s>>]   \* no JSON form

\* What the operation may return, and the metadata a caller may pass.
OpResults ==
    { StrVal("rook-ceph-osd-2"),
      TupleVal(<<"rook-ceph-mon-b", "rook-ceph-mon-c">>),
      ObjectVal("datetime") }
Metadatas == { NoneVal, DictVal(<<"status", "success">>) }

\* Alerts as the API returns them: two of them share the alert name and
\* differ in their state only.
Alerts ==
    { [name |-> "CephMgrIsAbsent", state |-> "pending"],
      [name |-> "CephMgrIsAbsent", state |-> "firing"] }

Unset == 0 - 1         \* a local variable not yet bound

Range(s) == { s[i] : i \in 1..Len(s) }
SeqsUpTo(S, n) == UNION { [1..k -> S] : k \in 0..n }

\* The listings a successful query can return while the alerts `active' are
\* reported: every active alert, in any order, possibly repeated.
Responses(active) == { r \in SeqsUpTo(active, MaxResp) : Range(r) = active }

\* ------------------------------------------------------------- result file
\* A result file: whether it exists, whether its text is a complete JSON
\* document, and the document.
NoDoc == [start |-> 0, stop |-> 0]
Absent == [exists |-> FALSE, complete |-> FALSE, doc |-> NoDoc]
Truncated == [exists |-> TRUE, complete |-> FALSE, doc |-> NoDoc]
Written(doc) == [exists |-> TRUE, complete |-> TRUE, doc |-> doc]

\* json.dump raises TypeError for a value that has no JSON form; a tuple is
\* written as an array, which json.load reads as a list.
Serializable(d) == d.result.t # "object" /\ d.metadata.t # "object"
JsonValue(v) == IF v.t = "tuple" THEN ListVal(v.v) ELSE v
JsonDump(d) ==
    [d EXCEPT !.result = JsonValue(@), !.metadata = JsonValue(@)]
\* A faulty variant: the loaded document is dropped.
JsonLoad_Nothing(f) == NoDoc

\* json.load of a complete document gives the document's values.
JsonLoad(f) == f.doc

\* A record of an earlier run found in the slot, and a document that parses
\* but is no measurement record.
StoredRecord ==
    [start |-> 0, stop |-> 1, result |-> StrVal("rook-ceph-osd-2"),
     metadata |-> NoneVal,
     prometheus_alerts |-> <<[name |-> "CephMgrIsAbsent", state |-> "pending"]>>]
ForeignDoc == [start |-> 0, stop |-> 1]
InitialFiles ==
    { Absent, Truncated, Written(StoredRecord), Written(ForeignDoc) }

\* ------------------------------------------------------------------- state
VARIABLES
    clock,        \* time.time()
    firing,       \* alerts the Prometheus API currently reports
    file,         \* the result file
    callNo,       \* number of calls of measure_operation started so far
    mpc,          \* position of the orchestrator inside measure_operation
    args,         \* measure_after, minimal_time, metadata of the current call
    start_time, passed_time, wake, stop_time, result, results,  \* locals
    info,         \* info[c]: the 'run' flag of call c
    alert_list,   \* alert_list[c]: the alert list of call c
    wpc,          \* wpc[c]: position of the logging thread of call c
    outcome,      \* outcome[c]: how call c ended
    returned,     \* returned[c]: what call c returned
    opCalls,      \* opCalls[c]: invocations of the operation by call c
    writes,       \* writes[c]: documents call c dumped into the file
    slotBefore,   \* the file as the current call found it
    events,       \* what the current call did so far, in order
    polled,       \* the thread of the current call has made a query
    sincePoll,    \* alerts that started firing after its latest query
    lastWindow,   \* those of them not yet queried when the flag is cleared
    polledAfterStop, \* a listing was appended after the flag was cleared
    stopPolls,    \* queries the thread made after the flag was cleared
    firstCheck,   \* the flag as the thread read it first: "running", "stopped"
    seen,         \* what a concurrent reader of the file found
    observed,     \* the listings a thread received, in order (WatchSpec)
    scenario,     \* the scenario fixture that runs: "mgr", "mon" or "osd"
    fpc,          \* position of the fixture
    deployments,  \* names of the deployments the fixture has listed
    to_stop,      \* mgr, mons_to_stop or osd_to_stop, as a list of names
    scale_cmds,   \* the scale commands given to the cluster, in order
    mons_after    \* names in the follow-up listing of the monitor scenario

measurement ==
    << clock, firing, file, callNo, mpc, args, start_time, passed_time, wake,
       stop_time, result, results, info, alert_list, wpc, outcome, returned,
       opCalls, writes, slotBefore, events, polled, sincePoll, lastWindow,
       polledAfterStop, stopPolls, firstCheck, seen, observed >>

fixture == << scenario, fpc, deployments, to_stop, scale_cmds, mons_after >>

vars == << measurement, fixture >>

locals == << start_time, passed_time, wake, stop_time, result, results >>
ghosts ==
    << polled, sincePoll, lastWindow, polledAfterStop, stopPolls, firstCheck >>
threads == << info, alert_list, wpc >>

NoArgs == [measure_after |-> FALSE, minimal_time |-> 0, metadata |-> NoneVal]

Init ==
    /\ clock = 0
    /\ firing = {}
    /\ file \in InitialFiles
    /\ callNo = 0
    /\ mpc = "idle"
    /\ args = NoArgs
    /\ start_time = Unset /\ passed_time = Unset /\ wake = Unset
    /\ stop_time = Unset /\ result = NoneVal /\ results = NoDoc
    /\ info = [c \in Calls |-> FALSE]
    /\ alert_list = [c \in Calls |-> <<>>]
    /\ wpc = [c \in Calls |-> "none"]
    /\ outcome = [c \in Calls |-> "none"]
    /\ returned = [c \in Calls |-> NoDoc]
    /\ opCalls = [c \in Calls |-> 0]
    /\ writes = [c \in Calls |-> 0]
    /\ slotBefore = file
    /\ events = <<>>
    /\ polled = FALSE
    /\ sincePoll = {}
    /\ lastWindow = {}
    /\ polledAfterStop = FALSE
    /\ stopPolls = 0
    /\ firstCheck = "none"
    /\ seen = "nothing"
    /\ observed = <<>>
    /\ scenario = "none"
    /\ fpc = "idle"
    /\ deployments = <<>>
    /\ to_stop = <<>>
    /\ scale_cmds = <<>>
    /\ mons_after = {}


\* ------------------------------------------------------- the orchestrator
cur == callNo

\* The call ends: by `return results' (line 140) or by an exception.
EndCall(c, how, value) ==
    /\ outcome' = [outcome EXCEPT ![c] = how]
    /\ returned' = [returned EXCEPT ![c] = value]
    /\ mpc' = "idle"
    /\ start_time' = Unset /\ passed_time' = Unset /\ wake' = Unset
    /\ stop_time' = Unset /\ result' = NoneVal /\ results' = NoDoc

\* A caller calls measure_operation(operation, result_file, minimal_time,
\* metadata, measure_after): what every call begins with.
Enter(ma, mt, md) ==
    /\ mpc = "idle"
    /\ callNo < MaxCalls
    /\ \A c \in 1..callNo : outcome[c] = "returned"
    /\ callNo' = callNo + 1
    /\ args' = [measure_after |-> ma, minimal_time |-> mt, metadata |-> md]
    /\ slotBefore' = file
    /\ polled' = FALSE /\ sincePoll' = {}
    /\ lastWindow' = {} /\ polledAfterStop' = FALSE /\ stopPolls' = 0
    /\ firstCheck' = "none"

\* A faulty variant: the check for an earlier result is lost.
FileIsThere_Never(f) == FALSE

\* line 86: os.path.isfile(result_file) and os.access(result_file, os.R_OK)
FileIsThere(f) == f.exists

\* A faulty variant: whatever text is in the file is taken for a document.
Parses_Anything(f) == TRUE

\* line 92: json.load raises JSONDecodeError unless the text of the file is
\* a complete JSON document.
Parses(f) == f.complete

\* lines 86-95 and 140, the file is there: json.load of it.  A text that is
\* no JSON document raises; anything that parses is returned as it is.
CallHit(ma, mt, md) ==
    /\ Enter(ma, mt, md)
    /\ FileIsThere(file)
    /\ IF Parses(file)
          THEN EndCall(callNo + 1, "returned", JsonLoad(file))
          ELSE EndCall(callNo + 1, "raised", NoDoc)
    /\ events' = <<"hit">>
    /\ UNCHANGED << clock, firing, file, threads, opCalls, writes, seen,
                    observed, fixture >>

\* A faulty variant: measure_after is ignored at line 103.
TakesStartBefore_Always(ma) == TRUE

\* lines 103-104: start_time is taken before the operation unless
\* measure_after.
TakesStartBefore(ma) == ~ma

\* lines 86 and 97-104, the file is not there: the measurement begins.
CallMiss(ma, mt, md) ==
    /\ Enter(ma, mt, md)
    /\ ~FileIsThere(file)
    /\ outcome' = [outcome EXCEPT ![callNo + 1] = "running"]
    /\ IF TakesStartBefore(ma)
          THEN start_time' = clock /\ events' = <<"miss", "start">>
          ELSE start_time' = Unset /\ events' = <<"miss">>
    /\ mpc' = "thread"
    /\ UNCHANGED << clock, firing, file, passed_time, wake, stop_time, result,
                    results, threads, returned, opCalls, writes, seen,
                    observed, fixture >>

\* lines 109-116: info = {'run': True}, alert_list = [], the thread starts.
StartThread ==
    /\ mpc = "thread"
    /\ info' = [info EXCEPT ![cur] = TRUE]
    /\ alert_list' = [alert_list EXCEPT ![cur] = <<>>]
    /\ wpc' = [wpc EXCEPT ![cur] = "check"]
    /\ events' = Append(events, "thread")
    /\ mpc' = "invoke"
    /\ UNCHANGED << clock, firing, file, callNo, args, locals, outcome,
                    returned, opCalls, writes, slotBefore, ghosts, seen,
                    observed, fixture >>

\* line 118: operation() is called ...
InvokeOperation ==
    /\ mpc = "invoke"
    /\ opCalls' = [opCalls EXCEPT ![cur] = @ + 1]
    /\ events' = Append(events, "invoke")
    /\ mpc' = "operation"
    /\ UNCHANGED << clock, firing, file, callNo, args, locals, threads,
                    outcome, returned, writes, slotBefore, ghosts, seen,
                    observed, fixture >>

\* ... and returns r; lines 119-120: with measure_after, start_time is taken
\* now,
OperationReturns(r) ==
    /\ mpc = "operation"
    /\ result' = r
    /\ IF args.measure_after
          THEN /\ start_time' = clock
               /\ events' = events \o <<"op_returned", "start">>
          ELSE /\ events' = Append(events, "op_returned")
               /\ UNCHANGED start_time
    /\ mpc' = "passed"
    /\ UNCHANGED << clock, firing, file, callNo, args, passed_time, wake,
                    stop_time, results, threads, outcome, returned, opCalls,
                    writes, slotBefore, ghosts, seen, observed, fixture >>

\* A faulty variant: the exception is caught and the measurement goes on.
OnOperationError_Swallowed ==
    /\ mpc' = "passed"
    /\ result' = NoneVal
    /\ start_time' = IF start_time = Unset THEN clock ELSE start_time
    /\ UNCHANGED << outcome, returned, passed_time, wake, stop_time, results >>

\* ... or raises: nothing in measure_operation catches it, the call ends
\* there and info['run'] is left as it is.
OnOperationError == EndCall(cur, "raised", NoDoc)

OperationRaises ==
    /\ mpc = "operation"
    /\ OnOperationError
    /\ events' = Append(events, "op_raised")
    /\ UNCHANGED << clock, firing, file, callNo, args, threads, opCalls,
                    writes, slotBefore, ghosts, seen, observed, fixture >>

\* A faulty variant: minimal_time is never waited for.
AdditionalTime_NoWait(minimal_time, passed) == 0

\* lines 122-124: the time still to wait, 0 when there is none.
AdditionalTime(minimal_time, passed) ==
    IF minimal_time # 0 /\ minimal_time - passed > 0
       THEN minimal_time - passed
       ELSE 0

\* line 121: passed_time = time.time() - start_time, and lines 122-125:
\* time.sleep(additional_time) begins when there is time to wait ...
PassedTime ==
    /\ mpc = "passed"
    /\ passed_time' = clock - start_time
    /\ IF AdditionalTime(args.minimal_time, passed_time') > 0
          THEN /\ wake' = clock + AdditionalTime(args.minimal_time, passed_time')
               /\ events' = Append(events, "sleep")
               /\ mpc' = "sleeping"
          ELSE /\ mpc' = "stop"
               /\ UNCHANGED << wake, events >>
    /\ UNCHANGED << clock, firing, file, callNo, args, start_time, stop_time,
                    result, results, threads, outcome, returned, opCalls,
                    writes, slotBefore, ghosts, seen, observed, fixture >>

\* A faulty variant: the sleep returns at once.
Slept_AtOnce(now, until) == TRUE

\* ... and returns no earlier than the time asked for.
Slept(now, until) == now >= until

WakeUp ==
    /\ mpc = "sleeping"
    /\ Slept(clock, wake)
    /\ events' = Append(events, "waited")
    /\ mpc' = "stop"
    /\ UNCHANGED << clock, firing, file, callNo, args, locals, threads,
                    outcome, returned, opCalls, writes, slotBefore, ghosts,
                    seen, observed, fixture >>

\* line 126: stop_time = time.time()
StopTime ==
    /\ mpc = "stop"
    /\ stop_time' = clock
    /\ events' = Append(events, "stop")
    /\ mpc' = "clear_flag"
    /\ UNCHANGED << clock, firing, file, callNo, args, start_time,
                    passed_time, wake, result, results, threads, outcome,
                    returned, opCalls, writes, slotBefore, ghosts, seen,
                    observed, fixture >>

\* line 127: info['run'] = False
RequestStop ==
    /\ mpc = "clear_flag"
    /\ info' = [info EXCEPT ![cur] = FALSE]
    /\ lastWindow' = IF polled THEN sincePoll ELSE {}
    /\ events' = Append(events, "flag")
    /\ mpc' = "join"
    /\ UNCHANGED << clock, firing, file, callNo, args, locals, alert_list,
                    wpc, outcome, returned, opCalls, writes, slotBefore,
                    polled, sincePoll, polledAfterStop, stopPolls,
                    firstCheck, seen, observed, fixture >>

\* A faulty variant: the orchestrator does not wait for the thread.
ThreadEnded_NoWait(w) == TRUE

\* line 128: logging_thread.join() returns once the thread has ended, be it
\* by leaving its loop or by an exception.
ThreadEnded(w) == w \in {"exited", "failed"}

\* lines 129-135: the record; 'prometheus_alerts' is the thread's list.
Record(start, stop, res, metadata, alerts) ==
    [start |-> start, stop |-> stop, result |-> res, metadata |-> metadata,
     prometheus_alerts |-> alerts]

\* lines 128-136: the join returns and the record is put together.
Join ==
    /\ mpc = "join"
    /\ ThreadEnded(wpc[cur])
    /\ results' = Record(start_time, stop_time, result, args.metadata,
                         alert_list[cur])
    /\ events' = Append(events, "joined")
    /\ mpc' = "open"
    /\ UNCHANGED << clock, firing, file, callNo, args, start_time,
                    passed_time, wake, stop_time, result, threads, outcome,
                    returned, opCalls, writes, slotBefore, ghosts, seen,
                    observed, fixture >>

\* line 137: open(result_file, 'w') creates the file, empty.
OpenedForWrite(f) == Truncated

OpenFile ==
    /\ mpc = "open"
    /\ file' = OpenedForWrite(file)
    /\ events' = Append(events, "opened")
    /\ mpc' = "dump"
    /\ UNCHANGED << clock, firing, callNo, args, locals, threads, outcome,
                    returned, opCalls, writes, slotBefore, ghosts, seen,
                    observed, fixture >>

\* lines 138-140: json.dump(results, outfile), the file is closed, and
\* `return results'.  When json.dump raises, the file is closed with the
\* part of the text written so far and the call ends by the exception.
DumpFile ==
    /\ mpc = "dump"
    /\ IF Serializable(results)
          THEN /\ file' = Written(JsonDump(results))
               /\ writes' = [writes EXCEPT ![cur] = @ + 1]
               /\ events' = Append(events, "dumped")
               /\ EndCall(cur, "returned", results)
          ELSE /\ file' = Truncated
               /\ events' = Append(events, "dump_failed")
               /\ EndCall(cur, "raised", NoDoc)
               /\ UNCHANGED writes
    /\ UNCHANGED << clock, firing, callNo, args, threads, opCalls,
                    slotBefore, ghosts, seen, observed, fixture >>

\* ---------------------------------------- the logging thread, prometheus_log
\* A faulty variant: every alert is appended, seen before or not.
AddAlert_NoCheck(list, alert) == Append(list, alert)

\* lines 78-80: an alert not yet in the list is appended to it.
AddAlert(list, alert) ==
    IF alert \in Range(list) THEN list ELSE Append(list, alert)

\* A faulty variant: the loop ends after the first alert of a listing.
LogAlerts_FirstOnly(list, listing) ==
    IF listing = <<>> THEN list ELSE AddAlert(list, Head(listing))

\* lines 77-80: the loop over the alerts of one listing, in its order.
RECURSIVE LogAlerts(_, _)
LogAlerts(list, listing) ==
    IF listing = <<>>
       THEN list
       ELSE LogAlerts(AddAlert(list, Head(listing)), Tail(listing))

\* A faulty variant: the loop condition is negated.
KeepsRunning_Inverted(run) == ~run

\* A faulty variant: the loop does not look at the flag.
KeepsRunning_Always(run) == TRUE

\* line 67: while info.get('run')
KeepsRunning(run) == run

\* line 67, reached at the thread's start and after each time.sleep(3) of
\* line 81: the flag is read, and the loop goes on or the thread ends.
WatcherCheck(c) ==
    /\ wpc[c] = "check"
    /\ wpc' = [wpc EXCEPT ![c] = IF KeepsRunning(info[c]) THEN "query"
                                                           ELSE "exited"]
    /\ firstCheck' = IF c = cur /\ outcome[c] = "running" /\ firstCheck = "none"
                         THEN IF info[c] THEN "running" ELSE "stopped"
                         ELSE firstCheck
    /\ UNCHANGED << clock, firing, file, callNo, mpc, args, locals, info,
                    alert_list, outcome, returned, opCalls, writes,
                    slotBefore, events, polled, sincePoll, lastWindow,
                    polledAfterStop, stopPolls, seen, observed, fixture >>

\* lines 68-81: one query.  `assert alerts_response.ok' ends the thread, and
\* only the thread, when the response is no success; otherwise the listing
\* is logged and the thread sleeps until its next look at the flag.
Poll(c, ok, listing) ==
    /\ wpc[c] = "query"
    /\ IF ok
          THEN /\ alert_list' =
                     [alert_list EXCEPT ![c] = LogAlerts(@, listing)]
               /\ wpc' = [wpc EXCEPT ![c] = "check"]
          ELSE /\ wpc' = [wpc EXCEPT ![c] = "failed"]
               /\ UNCHANGED alert_list
    /\ UNCHANGED info

\* A query of the thread of call c that is answered with one of `answers':
\* with success (TRUE) or with no success (FALSE).
Answered(c, answers) ==
    /\ \E ok \in answers : \E listing \in Responses(firing) :
          /\ Poll(c, ok, listing)
          /\ IF c = cur /\ outcome[c] = "running"
                THEN /\ polled' = TRUE
                     /\ sincePoll' = {}
                     /\ polledAfterStop' = (polledAfterStop \/ (ok /\ ~info[c]))
                     /\ stopPolls' = IF ~info[c] /\ stopPolls < MaxCounted
                                        THEN stopPolls + 1 ELSE stopPolls
                ELSE UNCHANGED << polled, sincePoll, polledAfterStop,
                                  stopPolls >>
    /\ UNCHANGED << clock, firing, file, callNo, mpc, args, locals, outcome,
                    returned, opCalls, writes, slotBefore, events, lastWindow,
                    firstCheck, seen, observed, fixture >>

WatcherPoll(c) == Answered(c, BOOLEAN)

\* --------------------------------------------------------- the environment
\* Time passes while a measurement takes its timestamps.  Beyond MaxTime it
\* passes only for a sleeping orchestrator.
Tick ==
    /\ mpc \in {"thread", "invoke", "operation", "passed", "sleeping", "stop"}
    /\ clock < MaxTime \/ (mpc = "sleeping" /\ clock < wake)
    /\ clock' = clock + 1
    /\ UNCHANGED << firing, file, callNo, mpc, args, locals, threads, outcome,
                    returned, opCalls, writes, slotBefore, events, ghosts,
                    seen, observed, fixture >>

\* An alert starts to be reported by the Prometheus API.
Fire(a) ==
    /\ a \notin firing
    /\ firing' = firing \cup {a}
    /\ sincePoll' = IF mpc # "idle" /\ wpc[cur] # "none"
                       THEN sincePoll \cup {a} ELSE sincePoll
    /\ UNCHANGED << clock, file, callNo, mpc, args, locals, threads, outcome,
                    returned, opCalls, writes, slotBefore, events, polled,
                    lastWindow, polledAfterStop, stopPolls, firstCheck, seen,
                    observed, fixture >>

\* A concurrent reader of the slot, such as another call of measure_operation
\* at lines 86-92: what it finds there.
Found(f, writing) ==
    IF ~f.exists THEN "absent"
    ELSE IF f.complete THEN "record"
    ELSE IF writing THEN "partial_write"
    ELSE "malformed"

Read ==
    /\ seen' = Found(file, mpc = "dump")
    /\ UNCHANGED << clock, firing, file, callNo, mpc, args, locals, threads,
                    outcome, returned, opCalls, writes, slotBefore, events,
                    ghosts, observed, fixture >>

\* ---------------------------------------------------------- specifications
Orchestrator ==
    \/ \E ma \in BOOLEAN : \E mt \in 0..MaxMinimalTime : \E md \in Metadatas :
          CallHit(ma, mt, md) \/ CallMiss(ma, mt, md)
    \/ StartThread
    \/ InvokeOperation
    \/ \E r \in OpResults : OperationReturns(r)
    \/ OperationRaises
    \/ PassedTime
    \/ WakeUp
    \/ StopTime
    \/ RequestStop
    \/ Join
    \/ OpenFile
    \/ DumpFile

Watcher == \E c \in Calls : WatcherCheck(c) \/ WatcherPoll(c)

Environment ==
    \/ Tick
    \/ \E a \in Alerts : Fire(a)

Next == Orchestrator \/ Watcher \/ Environment

Spec == Init /\ [][Next]_vars

\* The same program beside a concurrent reader of the slot.
ReaderNext == Next \/ Read

ReaderSpec == Init /\ [][ReaderNext]_vars

\* The logging thread fed any listings whatever: the thread of call 1 runs,
\* the orchestrator is about to clear the flag and to join it, and each
\* listing the thread receives is recorded until MaxPolls of them are.
WatchInit ==
    /\ clock = 0
    /\ firing = {}
    /\ file = Absent
    /\ callNo = 1
    /\ mpc = "clear_flag"
    /\ args = NoArgs
    /\ start_time = 0 /\ passed_time = 0 /\ wake = Unset
    /\ stop_time = 0 /\ result \in OpResults /\ results = NoDoc
    /\ info = [c \in Calls |-> c = 1]
    /\ alert_list = [c \in Calls |-> <<>>]
    /\ wpc = [c \in Calls |-> IF c = 1 THEN "check" ELSE "none"]
    /\ outcome = [c \in Calls |-> IF c = 1 THEN "running" ELSE "none"]
    /\ returned = [c \in Calls |-> NoDoc]
    /\ opCalls = [c \in Calls |-> IF c = 1 THEN 1 ELSE 0]
    /\ writes = [c \in Calls |-> 0]
    /\ slotBefore = Absent
    /\ events = <<"miss", "start", "thread", "invoke", "op_returned", "stop">>
    /\ polled = FALSE
    /\ sincePoll = {}
    /\ lastWindow = {}
    /\ polledAfterStop = FALSE
    /\ stopPolls = 0
    /\ firstCheck = "none"
    /\ seen = "nothing"
    /\ observed = <<>>
    /\ scenario = "none"
    /\ fpc = "idle"
    /\ deployments = <<>>
    /\ to_stop = <<>>
    /\ scale_cmds = <<>>
    /\ mons_after = {}

RecordedPoll(c) ==
    /\ Len(observed) < MaxPolls
    /\ \E listing \in SeqsUpTo(Alerts, MaxResp) :
          /\ Poll(c, TRUE, listing)
          /\ observed' = Append(observed, listing)
    /\ UNCHANGED << clock, firing, file, callNo, mpc, args, locals, outcome,
                    returned, opCalls, writes, slotBefore, events, ghosts,
                    seen, fixture >>

WatchNext == WatcherCheck(1) \/ RecordedPoll(1) \/ RequestStop \/ Join

WatchSpec == WatchInit /\ [][WatchNext]_vars

\* One measurement on an empty slot whose operation returns and whose
\* queries all succeed, under fair scheduling: the orchestrator and the
\* thread each take their next step when they can, the operation returns,
\* and time passes.
LiveInit == Init /\ file = Absent

LiveOrchestrator ==
    \/ StartThread
    \/ InvokeOperation
    \/ \E r \in OpResults : OperationReturns(r)
    \/ PassedTime
    \/ WakeUp
    \/ StopTime
    \/ RequestStop
    \/ Join
    \/ OpenFile
    \/ DumpFile

LiveWatcher == \E c \in Calls : WatcherCheck(c) \/ Answered(c, {TRUE})

LiveNext ==
    \/ \E ma \in BOOLEAN : \E mt \in 0..MaxMinimalTime : \E md \in Metadatas :
          CallMiss(ma, mt, md)
    \/ LiveOrchestrator
    \/ LiveWatcher
    \/ Environment

LiveSpec ==
    /\ LiveInit
    /\ [][LiveNext]_vars
    /\ WF_vars(LiveOrchestrator)
    /\ WF_vars(LiveWatcher)
    /\ WF_vars(Tick)

\* ---------------------------------------------------- the scenario fixtures
\* measure_stop_ceph_mgr, measure_stop_ceph_mon and measure_stop_ceph_osd.
Scenarios == {"mgr", "mon", "osd"}

\* The name of a deployment: the app of its label and a number.
Deployment(kind, i) == [app |-> kind, id |-> i]

Reverse(s) == [i \in 1..Len(s) |-> s[Len(s) + 1 - i]]

\* lines 185, 231-235, 304-308: the names oc.get(selector=...) lists for a
\* scenario, none to MaxDaemons of them, in one order or the other.
Listings(kind) ==
    UNION { { [i \in 1..n |-> Deployment(kind, i)],
              Reverse([i \in 1..n |-> Deployment(kind, i)]) } :
            n \in 0..MaxDaemons }

\* A faulty variant: half of the monitors, however few there are.
split_index_Half(n) == n \div 2

\* line 238: split_index = len(mons) // 2 if len(mons) > 3 else 2
split_index(n) == IF n > 3 THEN n \div 2 ELSE 2

\* The Python slice s[k:].
SliceFrom(s, k) == IF k >= Len(s) THEN <<>> ELSE SubSeq(s, k + 1, Len(s))

\* A faulty variant: the first storage daemon is taken, not the last.
LastOf_First(s) == s[1]

\* line 311: osds[-1]
LastOf(s) == s[Len(s)]

\* lines 186, 239, 311: the deployments the scenario is to stop.  Lines 186
\* and 311 raise IndexError on an empty listing.
Selects(kind, listing) == kind = "mon" \/ listing # <<>>

Targets(kind, listing) ==
    CASE kind = "mgr" -> << listing[1] >>
      [] kind = "mon" -> SliceFrom(listing, split_index(Len(listing)))
      [] kind = "osd" -> << LastOf(listing) >>

\* oc.get(name): the resource object of that name, which holds the name
\* under metadata.
OcGet(name) == DictVal(<< "metadata", DictVal(<< "name", name >>) >>)

\* lines 208, 266, 337: what the scenario's operation returns.
OperationResult(kind, stop) ==
    CASE kind = "mgr" -> OcGet(stop[1])
      [] kind = "mon" -> ListVal(stop)
      [] kind = "osd" -> StrVal(stop[1])

\* A faulty variant: every scale command asks for no replica.
Scale_ToZero(n, name) == [replicas |-> 0, name |-> name]

\* oc.exec_oc_cmd(f"scale --replicas={n} deployment/{name}")
Scale(n, name) == [replicas |-> n, name |-> name]

\* oc.exec_oc_cmd(command): the command is given to the cluster and the
\* call returns.
Exec(cmds, cmd) == Append(cmds, cmd)

\* lines 181-186, 227-241, 300-313: the fixture lists the deployments of its
\* label and picks those to stop.
FixtureBegin(kind, listing) ==
    /\ fpc = "idle"
    /\ callNo = 0
    /\ scenario' = kind
    /\ deployments' = listing
    /\ IF Selects(kind, listing)
          THEN to_stop' = Targets(kind, listing) /\ fpc' = "measure"
          ELSE to_stop' = <<>> /\ fpc' = "failed"
    /\ UNCHANGED << measurement, scale_cmds, mons_after >>

\* lines 211, 269, 340: measure_operation(stop_..., test_file), with the
\* defaults minimal_time=None, metadata=None, measure_after=False.
FixtureMeasure ==
    /\ fpc = "measure"
    /\ callNo = 0
    /\ CallHit(FALSE, 0, NoneVal) \/ CallMiss(FALSE, 0, NoneVal)

\* The fixture is inside its call of measure_operation, or past it.
Measuring == fpc = "measure" /\ callNo = 1

\* lines 204-205, 261-263, 333-334, inside the operation: the next
\* deployment to stop is scaled to 0.
ScaleDown ==
    /\ Measuring
    /\ mpc = "operation"
    /\ Len(scale_cmds) < Len(to_stop)
    /\ scale_cmds' =
          Exec(scale_cmds, Scale(0, to_stop[Len(scale_cmds) + 1]))
    /\ UNCHANGED << measurement, scenario, fpc, deployments, to_stop,
                    mons_after >>

\* lines 206-208, 264-266, 335-337: time.sleep(run_time) and the return.
ScenarioOperationReturns ==
    /\ Measuring
    /\ Len(scale_cmds) = Len(to_stop)
    /\ OperationReturns(OperationResult(scenario, to_stop))

\* measure_operation has returned measured_op to the fixture.
Measured == Measuring /\ mpc = "idle" /\ outcome[1] = "returned"

\* lines 212-214 and 341-344: the deployment is scaled back to 1 and
\* measured_op is returned.
Upscale ==
    /\ Measured
    /\ scenario \in {"mgr", "osd"}
    /\ scale_cmds' = Exec(scale_cmds, Scale(1, to_stop[1]))
    /\ fpc' = "returned"
    /\ UNCHANGED << measurement, scenario, deployments, to_stop, mons_after >>


\* lines 272-276: the follow-up listing of the monitors.  Those left running
\* are in it; each stopped one is in it still or is replaced by a new one.
FollowUps(listing, stopped) ==
    { (Range(listing) \ Range(stopped)) \cup still
         \cup { Deployment("mon", Len(listing) + i) :
                  i \in 1..(Len(stopped) - Cardinality(still)) } :
      still \in SUBSET Range(stopped) }

\* A faulty variant: one replaced monitor is enough.
check_old_mons_deleted_Any(after, stopped) ==
    \E i \in 1..Len(stopped) : stopped[i] \notin after

\* line 279: all(mon not in mons for mon in mons_to_stop)
check_old_mons_deleted(after, stopped) ==
    \A i \in 1..Len(stopped) : stopped[i] \notin after

\* lines 272-280 and 287: the monitors are listed again; measured_op is
\* returned when every stopped monitor is gone from the listing.
Relist(names) ==
    /\ Measured
    /\ scenario = "mon"
    /\ mons_after' = names
    /\ fpc' = IF check_old_mons_deleted(names, to_stop) THEN "returned"
                                                         ELSE "restore"
    /\ UNCHANGED << measurement, scenario, deployments, to_stop, scale_cmds >>

IsUpscale(cmd) == cmd.replicas = 1
Upscaled == Len(SelectSeq(scale_cmds, IsUpscale))

\* lines 281-283: otherwise every monitor of mons_to_stop is scaled to 1, ...
RestoreMon ==
    /\ fpc = "restore"
    /\ Upscaled < Len(to_stop)
    /\ scale_cmds' = Exec(scale_cmds, Scale(1, to_stop[Upscaled + 1]))
    /\ UNCHANGED << measurement, scenario, fpc, deployments, to_stop,
                    mons_after >>

\* ... and lines 284-285: the assertion fails.
PostconditionFails ==
    /\ fpc = "restore"
    /\ Upscaled = Len(to_stop)
    /\ fpc' = "failed"
    /\ UNCHANGED << measurement, scenario, deployments, to_stop, scale_cmds,
                    mons_after >>

\* What measure_operation does for a fixture: its steps with the fixture's
\* arguments (no minimal_time, so no wait), its thread and its environment.
MeasureOperation ==
    \/ StartThread
    \/ InvokeOperation
    \/ OperationRaises
    \/ PassedTime
    \/ StopTime
    \/ RequestStop
    \/ Join
    \/ OpenFile
    \/ DumpFile
    \/ Watcher
    \/ Environment

ScenarioNext ==
    \/ \E kind \in Scenarios : \E listing \in Listings(kind) :
          FixtureBegin(kind, listing)
    \/ FixtureMeasure
    \/ MeasureOperation
    \/ ScaleDown
    \/ ScenarioOperationReturns
    \/ Upscale
    \/ \E names \in FollowUps(deployments, to_stop) : Relist(names)
    \/ RestoreMon
    \/ PostconditionFails

ScenarioSpec == Init /\ [][ScenarioNext]_vars

\* How a fixture has ended: by returning measured_op, or by an exception of
\* its own or of measure_operation.
FixtureReturned == fpc = "returned"
FixtureFailed ==
    \/ fpc = "failed"
    \/ Measuring /\ mpc = "idle" /\ outcome[1] = "raised"

\* ------------------------------------------------------------ properties
Happened(e) == e \in Range(events)
Pos(e) ==
    IF Happened(e)
       THEN CHOOSE i \in 1..Len(events) :
               events[i] = e /\ \A j \in 1..(i - 1) : events[j] # e
       ELSE 0
Before(a, b) == Happened(a) /\ Happened(b) /\ Pos(a) < Pos(b)
Times(e) == Cardinality({ i \in 1..Len(events) : events[i] = e })

\* The current call has gone through the whole measurement and saved it.
Saved == callNo >= 1 /\ writes[callNo] = 1
HeldRecord == callNo >= 1 /\ slotBefore.exists /\ slotBefore.complete

\* C1: a call that finds a readable record in the slot returns exactly that
\* record and does nothing else: the operation is not invoked, no thread is
\* started (so no query is made for it), the file is left as it was; two such
\* calls in a row return the same record.
C1_CacheHitIsNoOp ==
    HeldRecord =>
       /\ mpc = "idle"
       /\ outcome[callNo] = "returned"
       /\ returned[callNo] = slotBefore.doc
       /\ file = slotBefore
       /\ opCalls[callNo] = 0
       /\ writes[callNo] = 0
       /\ wpc[callNo] = "none" /\ ~info[callNo] /\ alert_list[callNo] = <<>>
       /\ (callNo > 1 /\ writes[callNo - 1] = 0)
             => returned[callNo] = returned[callNo - 1]

C1_TwoHitsInARow ==
    /\ callNo = 2
    /\ HeldRecord
    /\ writes[1] = 0
    /\ outcome[1] = "returned" /\ outcome[2] = "returned"
    /\ returned[2] = StoredRecord

\* C2: a query of the thread that is answered with no success aborts the
\* measurement: the call does not return a record and writes none.
C2_QueryFailureAborts ==
    \A c \in Calls :
       wpc[c] = "failed" => outcome[c] # "returned" /\ writes[c] = 0

\* C3: in every measurement, with measure_after or without, stop >= start,
\* and with a positive minimal_time, stop - start >= minimal_time.
InOrder(start, stop, minimal_time) ==
    /\ stop >= start
    /\ minimal_time > 0 => stop - start >= minimal_time

C3_TimestampOrder ==
    /\ mpc \in {"clear_flag", "join", "open", "dump"}
          => /\ start_time # Unset
             /\ InOrder(start_time, stop_time, args.minimal_time)
    /\ Saved
          => /\ InOrder(returned[callNo].start, returned[callNo].stop,
                        args.minimal_time)
             /\ InOrder(file.doc.start, file.doc.stop, args.minimal_time)

C3_WaitedForMinimalTime ==
    /\ Saved
    /\ args.measure_after
    /\ args.minimal_time = 2
    /\ Happened("waited")
    /\ returned[callNo].stop - returned[callNo].start = 2

\* C4: whatever listings the thread has received, its alert list holds no
\* alert twice, holds every alert received (two alerts of one name that
\* differ are both there) and holds them in the order of their first
\* appearance in the stream of listings.
RECURSIVE Flatten(_)
Flatten(listings) ==
    IF listings = <<>> THEN <<>>
    ELSE Head(listings) \o Flatten(Tail(listings))

FirstAt(stream, a) ==
    CHOOSE i \in 1..Len(stream) :
       stream[i] = a /\ \A j \in 1..(i - 1) : stream[j] # a

C4_DedupInFirstSeenOrder ==
    LET list == alert_list[1]
        stream == Flatten(observed)
    IN /\ \A i, j \in 1..Len(list) : i # j => list[i] # list[j]
       /\ Range(list) = Range(stream)
       /\ \A i, j \in 1..Len(list) :
             i < j => FirstAt(stream, list[i]) < FirstAt(stream, list[j])

C4_RepeatedAlertKeptOnce ==
    /\ Len(observed) >= 2
    /\ Len(Flatten(observed)) >= 4
    /\ Len(alert_list[1]) = 2
    /\ alert_list[1][1].name = alert_list[1][2].name
    /\ wpc[1] = "exited"

\* C5: an exception of the operation ends the call at once: it reaches the
\* caller, the operation is not invoked again, and no file is written (the
\* slot is absent afterwards).
C5_OperationErrorPropagates ==
    /\ \A c \in Calls : opCalls[c] <= 1
    /\ Happened("op_raised")
          => /\ mpc = "idle"
             /\ outcome[callNo] = "raised"
             /\ returned[callNo] = NoDoc
             /\ opCalls[callNo] = 1
             /\ writes[callNo] = 0
             /\ file = Absent

C5_OperationRaised ==
    /\ Happened("op_raised")
    /\ outcome[callNo] = "raised"
    /\ wpc[callNo] = "query"
    /\ ~file.exists

\* C6: an alert that starts firing after the thread's latest query and
\* before the run flag is cleared is in the alert list of the record (stated
\* for the runs in which every query succeeded).
C6_LastWindowCaptured ==
    (Saved /\ wpc[callNo] = "exited")
       => lastWindow \subseteq Range(returned[callNo].prometheus_alerts)

\* C6 as amended: such an alert is in the record exactly when the thread
\* makes one more successful query after the flag is cleared, which it does
\* only if it has read the flag before the orchestrator cleared it.
C6_CapturedIffPolledAfterStop ==
    Saved =>
       \A a \in lastWindow :
          a \in Range(returned[callNo].prometheus_alerts) <=> polledAfterStop

C6_LateAlertCaptured ==
    /\ Saved
    /\ lastWindow # {}
    /\ polledAfterStop
    /\ lastWindow \subseteq Range(file.doc.prometheus_alerts)

\* C7: a reader of the slot never finds the record half written while
\* measure_operation saves it: it finds no file or the complete record.
C7_ReaderSeesNoPartialRecord == seen # "partial_write"

\* C8: the record is put together and saved only after the thread has
\* ended, so the alert list saved and returned is the thread's final list
\* and nothing is appended to it later; the run flag is written by the
\* orchestrator only and the alert list by the thread only.
C8_ThreadOver ==
    \A c \in Calls :
       /\ (c = callNo /\ mpc \in {"open", "dump"})
             => /\ wpc[c] \in {"exited", "failed"}
                /\ results.prometheus_alerts = alert_list[c]
       /\ writes[c] >= 1
             => /\ wpc[c] \in {"exited", "failed"}
                /\ returned[c].prometheus_alerts = alert_list[c]
                /\ file.doc.prometheus_alerts = alert_list[c]

C8_SingleWriter ==
    /\ info' # info => mpc \in {"thread", "clear_flag"} /\ mpc' # mpc
    /\ \A c \in Calls :
          alert_list'[c] # alert_list[c]
             => wpc[c] = "query" /\ wpc'[c] # "query" /\ mpc' = mpc

C8_AlertsReadAfterJoin == []C8_ThreadOver /\ [][C8_SingleWriter]_vars

C8_SavedFinalList ==
    /\ Saved
    /\ wpc[callNo] = "exited"
    /\ Len(alert_list[callNo]) = 2
    /\ returned[callNo].prometheus_alerts = alert_list[callNo]

\* C9: without measure_after the start is taken before the operation is
\* invoked; with it the operation is invoked first and the start is taken
\* once it has returned; the stop is always taken after the operation has
\* returned and after the wait for minimal_time, if there is one.
C9_StartPolicy ==
    Happened("miss") =>
       /\ Times("start") <= 1 /\ Times("stop") <= 1
       /\ (~args.measure_after /\ Happened("invoke"))
             => Before("start", "invoke")
       /\ (args.measure_after /\ Happened("start"))
             => Before("invoke", "op_returned") /\ Before("op_returned", "start")
       /\ Happened("op_returned") => Happened("start")
       /\ Happened("stop")
             => /\ Before("op_returned", "stop")
                /\ Before("start", "stop")
                /\ Happened("sleep")
                      => Before("sleep", "waited") /\ Before("waited", "stop")
       /\ (Happened("sleep") /\ ~Happened("waited")) => ~Happened("stop")

C9_StartTakenAfterOperation ==
    /\ Saved
    /\ args.measure_after
    /\ Happened("waited")
    /\ Before("op_returned", "start")

\* C10: the slot is written at most once: a measurement that runs to its end
\* writes its record once, and a slot that holds a record is never modified
\* by any later call.
C10_OneWrite ==
    /\ \A c \in Calls : writes[c] <= 1
    /\ Cardinality({ c \in Calls : writes[c] >= 1 }) <= 1
    /\ \A c \in Calls :
          (outcome[c] = "returned" /\ opCalls[c] = 1)
             => writes[c] = 1 /\ file = Written(JsonDump(returned[c]))

C10_RecordKept == (file.exists /\ file.complete) => file' = file

C10_WrittenOnce == []C10_OneWrite /\ [][C10_RecordKept]_vars

C10_HitAfterSave ==
    /\ callNo = 2
    /\ writes[1] = 1
    /\ outcome[2] = "returned"
    /\ file = Written(JsonDump(returned[1]))
    /\ returned[2] = file.doc

\* C11: a scenario fixture that finds the slot holding a text that does not
\* parse fails with the error of the load, and no scale command, to 0 or to
\* 1, is given to the cluster; the operation is not invoked.
Malformed(f) == f.exists /\ ~f.complete

RecordKeys == {"start", "stop", "result", "metadata", "prometheus_alerts"}
IsRecord(d) == DOMAIN d = RecordKeys

C12_LoadRejectsInvalidRecord ==
    \A c \in Calls :
       (c = callNo /\ slotBefore.exists /\ outcome[c] = "returned")
          => IsRecord(returned[c])

\* C13: once measure_operation has returned to it, a fixture of any of the
\* three scenarios scales back to 1 every deployment it has scaled to 0
\* before it ends.
ScaledBackUp(cmds) ==
    \A i \in 1..Len(cmds) :
       cmds[i].replicas = 0
          => \E j \in (i + 1)..Len(cmds) : cmds[j] = Scale(1, cmds[i].name)

FixtureOver == FixtureReturned \/ (fpc = "failed" /\ callNo = 1)

C13_EveryStoppedScaledBackUp == FixtureOver => ScaledBackUp(scale_cmds)

\* C13 as amended: the manager and the storage-daemon fixture scale their
\* deployment back to 1 and return; the monitor fixture scales the stopped
\* monitors back to 1, all of them, only when one of them is still in the
\* follow-up listing, and gives no scale command when all are gone from it.
C13_ScaledBackUpUnlessReplaced ==
    FixtureOver =>
       /\ scenario \in {"mgr", "osd"}
             => /\ FixtureReturned
                /\ ScaledBackUp(scale_cmds)
                /\ scale_cmds[Len(scale_cmds)] = Scale(1, to_stop[1])
                /\ Upscaled = 1
       /\ scenario = "mon"
             => /\ FixtureReturned
                   <=> \A i \in 1..Len(to_stop) : to_stop[i] \notin mons_after
                /\ FixtureReturned => Upscaled = 0
                /\ ~FixtureReturned
                      => /\ Upscaled = Len(to_stop)
                         /\ \A i \in 1..Len(to_stop) :
                               scale_cmds[Len(scale_cmds) - Len(to_stop) + i]
                                  = Scale(1, to_stop[i])
                /\ ScaledBackUp(scale_cmds)
                      <=> (~FixtureReturned \/ opCalls[1] = 0 \/ to_stop = <<>>)

C13_ReplacedMonitorsNotScaledUp ==
    /\ FixtureReturned
    /\ scenario = "mon"
    /\ Len(to_stop) = 2
    /\ scale_cmds = << Scale(0, to_stop[1]), Scale(0, to_stop[2]) >>
    /\ mons_after \cap Range(to_stop) = {}

\* C14: the manager fixture, given one manager deployment and an empty
\* slot, produces a record whose result is the name of the deployment it
\* has scaled to 0.
C14_ManagerResultIsName ==
    (/\ scenario = "mgr"
     /\ Len(deployments) = 1
     /\ ~slotBefore.exists
     /\ FixtureReturned)
       => /\ scale_cmds[1] = Scale(0, deployments[1])
          /\ returned[1].result = StrVal(deployments[1])

\* C15: of N listed monitors the monitor fixture stops those at the listing
\* positions after the split index, N \div 2 when N > 3 and 2 otherwise, and
\* no other: N - N \div 2 of them when N > 3, one when N = 3; a monitor
\* before the split index is never scaled to 0; the record's result is the
\* list of the stopped names.
IsDownscale(cmd) == cmd.replicas = 0
Downscaled == SelectSeq(scale_cmds, IsDownscale)
DownscaledNames == [i \in 1..Len(Downscaled) |-> Downscaled[i].name]

C15_MonitorSubset ==
    scenario = "mon" =>
       LET N == Len(deployments)
           k == IF N > 3 THEN N \div 2 ELSE 2
       IN /\ \A i \in 1..Len(Downscaled) :
                i <= N - k /\ Downscaled[i].name = deployments[k + i]
          /\ \A j \in 1..N :
                j <= k => Scale(0, deployments[j]) \notin Range(scale_cmds)
          /\ Happened("op_returned")
                => /\ N > 3 => Len(Downscaled) = N - (N \div 2)
                   /\ N = 3 => Len(Downscaled) = 1
                   /\ N < 3 => Len(Downscaled) = 0
          /\ (outcome[1] = "returned" /\ opCalls[1] = 1)
                => /\ returned[1].result = ListVal(DownscaledNames)
                   /\ Range(DownscaledNames) =
                         { deployments[j] : j \in (k + 1)..N }

C15_TwoOfFourMonitorsStopped ==
    /\ scenario = "mon"
    /\ Len(deployments) = 4
    /\ deployments[1].id = 4
    /\ outcome[1] = "returned" /\ opCalls[1] = 1
    /\ returned[1].result = ListVal(<< deployments[3], deployments[4] >>)
    /\ Len(Downscaled) = 2

\* C16: given a listing of storage daemons that is not empty, the
\* storage-daemon fixture scales exactly one deployment to 0, the last of
\* the listing, and no other; the record's result is its name.
C16_LastStorageDaemonStopped ==
    (scenario = "osd" /\ deployments # <<>>) =>
       LET last == deployments[Len(deployments)]
       IN /\ \A i \in 1..Len(scale_cmds) : scale_cmds[i].name = last
          /\ Len(Downscaled) <= 1
          /\ Happened("op_returned") => Downscaled = << Scale(0, last) >>
          /\ (outcome[1] = "returned" /\ opCalls[1] = 1)
                => returned[1].result = StrVal(last)

C16_LastOfThreeStopped ==
    /\ scenario = "osd"
    /\ Len(deployments) = 3
    /\ deployments[3].id = 1
    /\ FixtureReturned
    /\ scale_cmds = << Scale(0, deployments[3]), Scale(1, deployments[3]) >>
    /\ file.doc.result = StrVal(deployments[3])

\* C17: after the orchestrator has set the run flag to false, the thread
\* makes at most one more query before it exits: a query it makes then is
\* the one whose flag check came before the flag was cleared, and the next
\* look at the flag ends the thread.
C17_PollsAfterStop ==
    /\ stopPolls <= 1
    /\ \A c \in Calls :
          (c = callNo /\ outcome[c] = "running" /\ ~info[c] /\ stopPolls = 1)
             => wpc[c] \in {"check", "exited", "failed"}

C17_QueriesOnlyWhileRunning ==
    \A c \in Calls :
       (c = callNo /\ outcome[c] = "running" /\ stopPolls' > stopPolls)
          => /\ (wpc[c] = "query" /\ stopPolls = 0)
             /\ wpc'[c] \in {"check", "failed"}

C17_AtMostOneMoreQuery ==
    []C17_PollsAfterStop /\ [][C17_QueriesOnlyWhileRunning]_vars

C17_OneMoreQueryThenExit ==
    /\ Saved
    /\ stopPolls = 1
    /\ polledAfterStop
    /\ wpc[callNo] = "exited"

\* C18: the run flag stays true from the start of the thread through the
\* operation and the wait for minimal_time; the orchestrator sets it to false
\* only after the operation has returned, after a wait that has begun has
\* ended, and never while the time elapsed since start is below minimal_time.
C18_FlagHeldWhileMeasuring ==
    \A c \in Calls :
       (c = callNo /\ mpc \in {"invoke", "operation", "passed", "sleeping",
                                "stop", "clear_flag"})
          => info[c]

C18_FlagClearedAfterWait ==
    \A c \in Calls :
       (info[c] /\ ~info'[c])
          => /\ c = callNo
             /\ Happened("op_returned")
             /\ Happened("sleep") => Happened("waited")
             /\ start_time # Unset /\ stop_time # Unset
             /\ clock - start_time >= args.minimal_time

C18_MonitoredThroughMinimalTime ==
    []C18_FlagHeldWhileMeasuring /\ [][C18_FlagClearedAfterWait]_vars

C18_FlagClearedOnceWaited ==
    /\ mpc = "join"
    /\ ~info[callNo]
    /\ wpc[callNo] = "query"
    /\ args.minimal_time = 2
    /\ passed_time = 0
    /\ Happened("waited")
    /\ alert_list[callNo] # <<>>

\* C19: once measure_operation has returned to the monitor fixture, if a
\* stopped monitor's name is still in the follow-up listing the fixture
\* scales every stopped monitor back to 1 and only then fails; it returns
\* the record only when none of the stopped names is in that listing.
StillListed == Range(to_stop) \cap mons_after

C19_PostconditionOutcome ==
    scenario = "mon" =>
       /\ FixtureReturned
             => /\ StillListed = {}
                /\ outcome[1] = "returned"
                /\ Upscaled = 0
       /\ fpc = "restore" => StillListed # {} /\ Upscaled <= Len(to_stop)
       /\ (fpc = "failed" /\ callNo = 1)
             => /\ StillListed # {}
                /\ \A i \in 1..Len(to_stop) :
                      Scale(1, to_stop[i]) \in Range(scale_cmds)
                /\ Upscaled = Len(to_stop)

C19_FailsOnlyOnceRestored ==
    scenario = "mon" =>
       /\ (fpc # "failed" /\ fpc' = "failed" /\ callNo = 1)
             => /\ fpc = "restore"
                /\ \A i \in 1..Len(to_stop) :
                      Scale(1, to_stop[i]) \in Range(scale_cmds)
                /\ scale_cmds' = scale_cmds
       /\ (Measured /\ fpc' # fpc)
             => (fpc' = "returned" <=> Range(to_stop) \cap mons_after' = {})

C19_RestoredThenFailed ==
    []C19_PostconditionOutcome /\ [][C19_FailsOnlyOnceRestored]_vars

C19_FailedAfterRestoringBoth ==
    /\ scenario = "mon"
    /\ fpc = "failed"
    /\ Len(to_stop) = 2
    /\ opCalls[1] = 1
    /\ StillListed = { to_stop[2] }
    /\ scale_cmds = << Scale(0, to_stop[1]), Scale(0, to_stop[2]),
                       Scale(1, to_stop[1]), Scale(1, to_stop[2]) >>

\* C20: a measurement on an empty slot whose operation returns and whose
\* queries all succeed comes to its end under fair scheduling: the thread
\* reads the flag as false and exits, the join returns, and
\* measure_operation saves the record and returns it.
C20_MissEventuallySaved ==
    (outcome[1] = "running")
       ~> (/\ wpc[1] = "exited"
           /\ mpc = "idle"
           /\ outcome[1] = "returned"
           /\ writes[1] = 1)

\* C20 as amended: the thread exits, the join returns and the call ends in
\* every such run; the record is saved and returned when the operation's
\* result and the metadata have a JSON form (json.dump raises otherwise).
ToBeSaved ==
    /\ mpc = "passed"
    /\ Serializable([result |-> result, metadata |-> args.metadata])

C20_MeasurementTerminates ==
    /\ (outcome[1] = "running") ~> (wpc[1] = "exited" /\ Happened("joined"))
    /\ (outcome[1] = "running") ~> (mpc = "idle" /\ outcome[1] # "running")
    /\ ToBeSaved
          ~> (/\ mpc = "idle"
              /\ outcome[1] = "returned"
              /\ writes[1] = 1
              /\ file = Written(JsonDump(returned[1])))

C20_SavedAfterJoin ==
    /\ Saved
    /\ Happened("joined")
    /\ Happened("waited")
    /\ wpc[1] = "exited"
    /\ polled
    /\ returned[1].result = TupleVal(<< "rook-ceph-mon-b", "rook-ceph-mon-c" >>)

\* C21: when a measurement on an empty slot has ended, by the return of the
\* record or by an exception of the operation, the run flag of its thread
\* has been set to false and the thread makes no further query.
C21_WatcherEndsWithMeasurement ==
    \A c \in Calls :
       (outcome[c] \in {"returned", "raised"} /\ wpc[c] # "none")
          => ~info[c] /\ wpc[c] # "query"

\* C22: every measurement on an empty slot that returns a record has made
\* at least one alert query, however the thread's first look at the flag
\* and the orchestrator's stop request interleave.
C22_ReturnedRecordHasPolled == Saved => polled

\* C22 as amended: such a measurement has made a query exactly when the
\* thread's first look at the flag came before the flag was cleared; a
\* thread that first reads the flag as false exits without a query and the
\* record's alert list is empty.
C22_PolledIffCheckedBeforeStop ==
    Saved =>
       /\ firstCheck \in {"running", "stopped"}
       /\ polled <=> firstCheck = "running"
       /\ ~polled
             => /\ wpc[callNo] = "exited"
                /\ returned[callNo].prometheus_alerts = <<>>
                /\ file.doc.prometheus_alerts = <<>>

C22_PolledOnImmediateReturn ==
    /\ Saved
    /\ args.minimal_time = 0
    /\ returned[callNo].start = returned[callNo].stop
    /\ firstCheck = "running"
    /\ polled
    /\ stopPolls = 1
    /\ Len(returned[callNo].prometheus_alerts) = 1

\* C23: the monitor fixture run on a slot that holds a valid record (so that
\* no monitor is scaled to 0 in this run) returns the stored record: it
\* does not fail and gives no scale command to the cluster.
C23_ReplayReturnsStoredRecord ==
    (scenario = "mon" /\ slotBefore = Written(StoredRecord)) =>
       /\ \A c \in Calls : opCalls[c] = 0
       /\ scale_cmds = <<>>
       /\ fpc \notin {"restore", "failed"}
       /\ FixtureReturned => returned[1] = StoredRecord

==============================================================================
